------------------------------ MODULE Spec2Model ------------------------------
(***************************************************************************)
(* RealTimeStock: the portfolio accounting of services/portfolio_service.py *)
(* over the transactions table of database/crud.py, the price-series       *)
(* metrics of core/analyzer.py with the tool of core/tools.py that reports *)
(* them, and the alert rules checked by services/alert_service.py.         *)
(*                                                                         *)
(* Money and quantities are decimal.Decimal values.  A Decimal is modelled  *)
(* as the rational it denotes, a pair <<n, d>> in lowest terms with d > 0,  *)
(* and every arithmetic operation rounds its exact result to DecimalPrec    *)
(* significant digits, half-even, as the decimal context does.  A float is  *)
(* the rational rounded to FloatMantissa significant bits.                  *)
(***************************************************************************)
EXTENDS Integers, Sequences, FiniteSets, Bags, TLC

(***************************************************************************)
(* Bounds of the model.                                                    *)
(***************************************************************************)
\* Rows the ledger can grow by in one behaviour.
MaxTx == 3
\* Significant digits of the decimal context (28 in the default context).
DecimalPrec == 3
\* Significant bits of a float (53 in a double).
FloatMantissa == 8
\* Longest price series given to compute_moving_average on its own.
MaxSeries == 4
\* Longest list of returns given to compute_volatility on its own.
MaxReturns == 3

-----------------------------------------------------------------------------
(***************************************************************************)
(* Rationals and rounding.                                                 *)
(***************************************************************************)
Abs(x) == IF x < 0 THEN -x ELSE x

Min(a, b) == IF a <= b THEN a ELSE b

RECURSIVE GCD(_, _)
GCD(a, b) == IF b = 0 THEN a ELSE GCD(b, a % b)

RECURSIVE Pow(_, _)
Pow(b, k) == IF k = 0 THEN 1 ELSE b * Pow(b, k - 1)

\* The rational n/d (d # 0) in lowest terms with a positive denominator.
Rat(n, d) ==
    LET g == GCD(Abs(n), Abs(d))
        s == IF d < 0 THEN -1 ELSE 1
    IN  <<(s * n) \div g, (s * d) \div g>>

Zero == <<0, 1>>

\* Python's None where a Decimal or a float is expected.
None == <<0, 0>>

FromInt(i) == <<i, 1>>

RatAdd(a, b) == Rat(a[1] * b[2] + b[1] * a[2], a[2] * b[2])

RatSub(a, b) == Rat(a[1] * b[2] - b[1] * a[2], a[2] * b[2])

RatMul(a, b) == Rat(a[1] * b[1], a[2] * b[2])

RatDiv(a, b) == Rat(a[1] * b[2], a[2] * b[1])

RatLt(a, b) == a[1] * b[2] < b[1] * a[2]

RatLe(a, b) == a[1] * b[2] <= b[1] * a[2]

\* <<num, den, k>> with num/den = (n/d) * base^k and
\* base^(digits-1) <= num/den < base^digits, for n > 0.
RECURSIVE Scale(_, _, _, _, _)
Scale(n, d, k, base, digits) ==
    IF n < Pow(base, digits - 1) * d
    THEN Scale(n * base, d, k + 1, base, digits)
    ELSE IF n >= Pow(base, digits) * d
         THEN Scale(n, d * base, k - 1, base, digits)
         ELSE <<n, d, k>>

\* q rounded to `digits` significant digits in `base`, ties to even.
RoundSig(q, base, digits) ==
    IF q[2] = 1 /\ Abs(q[1]) < Pow(base, digits) THEN q
    ELSE LET sc == Scale(Abs(q[1]), q[2], 0, base, digits)
             c0 == sc[1] \div sc[2]
             r  == sc[1] % sc[2]
             c  == IF 2 * r > sc[2] \/ (2 * r = sc[2] /\ c0 % 2 = 1)
                   THEN c0 + 1 ELSE c0
             s  == IF q[1] < 0 THEN -1 ELSE 1
         IN  IF sc[3] >= 0
             THEN Rat(s * c, Pow(base, sc[3]))
             ELSE Rat(s * c * Pow(base, -sc[3]), 1)

\* The decimal context's rounding of an exact result.
DecRound(q) == RoundSig(q, 10, DecimalPrec)

DecAdd(a, b) == DecRound(RatAdd(a, b))

DecSub(a, b) == DecRound(RatSub(a, b))

DecMul(a, b) == DecRound(RatMul(a, b))

DecDiv(a, b) == DecRound(RatDiv(a, b))

\* float(x) of a Decimal, and float arithmetic.
ToFloat(q) == RoundSig(q, 2, FloatMantissa)

FloatMul(a, b) == ToFloat(RatMul(a, b))

FloatAdd(a, b) == ToFloat(RatAdd(a, b))

FloatSub(a, b) == ToFloat(RatSub(a, b))

FloatDiv(a, b) == ToFloat(RatDiv(a, b))

Max(a, b) == IF a >= b THEN a ELSE b

\* <<num, den, k>> with num/den = (n/d) * 4^k and
\* 4^(FloatMantissa-1) <= num/den < 4^FloatMantissa, for n > 0.
RECURSIVE SqrtScale(_, _, _)
SqrtScale(n, d, k) ==
    IF n < Pow(4, FloatMantissa - 1) * d THEN SqrtScale(4 * n, d, k + 1)
    ELSE IF n >= Pow(4, FloatMantissa) * d THEN SqrtScale(n, 4 * d, k - 1)
    ELSE <<n, d, k>>

\* The integer m of FloatMantissa bits nearest to the square root of n/d
\* (ties to even), for 4^(FloatMantissa-1) <= n/d < 4^FloatMantissa.
SqrtSignificand(n, d) ==
    LET m == CHOOSE c \in Pow(2, FloatMantissa - 1)..(Pow(2, FloatMantissa) - 1) :
                 c * c * d <= n /\ (c + 1) * (c + 1) * d > n
        half == (4 * m * m + 4 * m + 1) * d
    IN  IF 4 * n > half \/ (4 * n = half /\ m % 2 = 1) THEN m + 1 ELSE m

FloatOfSqrt(sc) ==
    IF sc[3] >= 0 THEN Rat(SqrtSignificand(sc[1], sc[2]), Pow(2, sc[3]))
    ELSE Rat(SqrtSignificand(sc[1], sc[2]) * Pow(2, -sc[3]), 1)

\* math.sqrt(q) of a float q >= 0: the square root, correctly rounded.
FloatSqrt(q) ==
    IF q[1] = 0 THEN Zero ELSE FloatOfSqrt(SqrtScale(q[1], q[2], 0))

-----------------------------------------------------------------------------
(***************************************************************************)
(* The transactions table (database/models.py) and its query.              *)
(***************************************************************************)
Tickers == {"A", "B"}

Users == {1, 2}

\* Default of get_user_transactions' limit parameter.
Limit == 100

\* A row of the transactions table: the columns the aggregation reads.
Transaction(u, tk, ty, q, p, f, d) ==
    [user_id |-> u, ticker |-> tk, transaction_type |-> ty, quantity |-> q,
     price |-> p, fees |-> f, transaction_date |-> d]

\* The rows of `table` (a bag of rows) that belong to user u.
RowsOfUser(table, u) ==
    LET S == {r \in BagToSet(table) : r.user_id = u}
    IN  [r \in S |-> table[r]]

MaxDate(S) == CHOOSE d \in {r.transaction_date : r \in S} :
                  \A r \in S : r.transaction_date <= d

\* ORDER BY transaction_date DESC: every sequence of the bag's rows whose
\* dates never increase.  SQL leaves the order of rows of equal date open.
\* (The copies of a row that is alone at the latest date are taken at once.)
RECURSIVE OrderByDateDesc(_)
OrderByDateDesc(b) ==
    IF BagToSet(b) = {} THEN {<<>>}
    ELSE LET S == BagToSet(b)
             first == {r \in S : r.transaction_date = MaxDate(S)}
         IN  IF Cardinality(first) = 1
             THEN {[i \in 1..b[r] |-> r] \o s :
                      r \in first,
                      s \in OrderByDateDesc([x \in S \ first |-> b[x]])}
             ELSE UNION {{<<r>> \o s :
                             s \in OrderByDateDesc(b (-) SetToBag({r}))}
                         : r \in first}

\* .limit(limit)
Truncate(s, limit) == SubSeq(s, 1, Min(limit, Len(s)))

\* crud.get_user_transactions(db, user_id): the lists the query may return.
get_user_transactions(table, u) ==
    {Truncate(s, Limit) : s \in OrderByDateDesc(RowsOfUser(table, u))}

-----------------------------------------------------------------------------
(***************************************************************************)
(* compute_positions_simple: the average-cost fold.                        *)
(***************************************************************************)
\* Decimal(str(x)) of a column value.
ToDecimal(x) == FromInt(x)

IsPositive(q) == q[1] > 0

DecMin(a, b) == IF RatLe(a, b) THEN a ELSE b

\* by_ticker is the dict of the fold, kept in insertion order: a sequence of
\* entries with distinct tickers.
NewEntry(tk) ==
    [ticker |-> tk, quantity |-> Zero, total_cost |-> Zero,
     realized_profit |-> Zero]

HasTicker(by_ticker, tk) ==
    \E i \in 1..Len(by_ticker) : by_ticker[i].ticker = tk

IndexOf(by_ticker, tk) ==
    CHOOSE i \in 1..Len(by_ticker) : by_ticker[i].ticker = tk

\* Mutant of BuyCost: the fees are left out of the cost.
BuyCostWithoutFees(qty, price, fees) == DecMul(qty, price)

\* BUY: quantity += qty; total_cost += qty * price + fees
BuyCost(qty, price, fees) == DecAdd(DecMul(qty, price), fees)

ApplyBuy(e, qty, price, fees) ==
    [e EXCEPT !.quantity = DecAdd(@, qty),
              !.total_cost = DecAdd(@, BuyCost(qty, price, fees))]

\* The quantity a SELL of qty leaves of old_qty: quantity -= qty
QuantityAfterSell(old_qty, qty) == DecSub(old_qty, qty)

\* SELL
ApplySell(e, qty, price, fees) ==
    LET old_qty == e.quantity
        avg == DecDiv(e.total_cost, old_qty)
        sell_qty == DecMin(qty, old_qty)
        cost_sold == DecMul(sell_qty, avg)
        fee_part == IF qty # Zero THEN DecDiv(DecMul(fees, sell_qty), qty)
                    ELSE Zero
        proceeds == DecSub(DecMul(sell_qty, price), fee_part)
        sold == IF IsPositive(old_qty)
                THEN [e EXCEPT !.total_cost = DecSub(@, cost_sold),
                               !.realized_profit =
                                   DecAdd(@, DecSub(proceeds, cost_sold))]
                ELSE e
    IN  [sold EXCEPT !.quantity = QuantityAfterSell(old_qty, qty)]

\* One iteration of the loop over trans.
ApplyTransaction(by_ticker, t) ==
    LET bt == IF HasTicker(by_ticker, t.ticker) THEN by_ticker
              ELSE Append(by_ticker, NewEntry(t.ticker))
        i == IndexOf(bt, t.ticker)
        qty == ToDecimal(t.quantity)
        price == ToDecimal(t.price)
        fees == ToDecimal(t.fees)
    IN  [bt EXCEPT ![i] = IF t.transaction_type = "BUY"
                          THEN ApplyBuy(@, qty, price, fees)
                          ELSE ApplySell(@, qty, price, fees)]

\* by_ticker after each iteration lo..hi of the loop, entered with `start`
\* (the range is halved to keep the evaluation shallow).
RECURSIVE FoldRange(_, _, _, _)
FoldRange(start, tr, lo, hi) ==
    IF lo > hi THEN <<>>
    ELSE IF lo = hi THEN <<ApplyTransaction(start, tr[lo])>>
    ELSE LET mid == (lo + hi) \div 2
             left == FoldRange(start, tr, lo, mid)
         IN  left \o FoldRange(left[Len(left)], tr, mid + 1, hi)

\* by_ticker after each iteration: FoldStates(tr)[k] is the dict once
\* tr[1..k] have been applied to the empty dict.
FoldStates(tr) == FoldRange(<<>>, tr, 1, Len(tr))

\* by_ticker when the loop ends.
FinalByTicker(states) ==
    IF states = <<>> THEN <<>> ELSE states[Len(states)]

\* Mutant of IsOpen: >= instead of >.
IsOpenOrFlat(e) == e.quantity[1] >= 0

\* The filter of the returned list: v["quantity"] > 0
IsOpen(e) == IsPositive(e.quantity)

RECURSIVE OpenPositions(_)
OpenPositions(by_ticker) ==
    IF by_ticker = <<>> THEN <<>>
    ELSE LET rest == OpenPositions(Tail(by_ticker))
         IN  IF IsOpen(Head(by_ticker)) THEN <<Head(by_ticker)>> \o rest
             ELSE rest

-----------------------------------------------------------------------------
(***************************************************************************)
(* compute_positions: the other fold of the module, whose entries keep the *)
(* cost under the key cost_basis.                                          *)
(***************************************************************************)
NewCostBasisEntry(tk) ==
    [ticker |-> tk, quantity |-> Zero, cost_basis |-> Zero,
     realized_profit |-> Zero]

\* BUY: quantity += qty; cost_basis += cost
BuyInto(e, qty, cost) ==
    [e EXCEPT !.quantity = DecAdd(@, qty),
              !.cost_basis = DecAdd(@, cost)]

\* cost_basis / (quantity + qty) if (quantity + qty) != 0 else 0, read after
\* quantity -= qty
CostPerUnit(cost_basis, quantity, qty) ==
    IF DecAdd(quantity, qty) # Zero
    THEN DecDiv(cost_basis, DecAdd(quantity, qty))
    ELSE Zero

\* cost_basis -= qty * (...)
CostBasisAfterSell(e, qty) ==
    DecSub(e.cost_basis,
           DecMul(qty, CostPerUnit(e.cost_basis, DecSub(e.quantity, qty),
                                   qty)))

\* cost_sold, computed from the cost_basis the statement before has reduced
CostSold(e, qty) ==
    DecMul(qty, CostPerUnit(CostBasisAfterSell(e, qty),
                            DecSub(e.quantity, qty), qty))

\* SELL
SellFrom(e, qty, price, fees) ==
    [e EXCEPT !.quantity = DecSub(@, qty),
              !.cost_basis = CostBasisAfterSell(e, qty),
              !.realized_profit =
                  DecAdd(@, DecSub(DecSub(DecMul(qty, price), fees),
                                   CostSold(e, qty)))]

\* One iteration of the loop of compute_positions.
ApplyRecord(by_ticker, t) ==
    LET bt == IF HasTicker(by_ticker, t.ticker) THEN by_ticker
              ELSE Append(by_ticker, NewCostBasisEntry(t.ticker))
        i == IndexOf(bt, t.ticker)
        qty == ToDecimal(t.quantity)
        price == ToDecimal(t.price)
        fees == ToDecimal(t.fees)
    IN  [bt EXCEPT ![i] = IF t.transaction_type = "BUY"
                          THEN BuyInto(@, qty, BuyCost(qty, price, fees))
                          ELSE SellFrom(@, qty, price, fees)]

\* by_ticker after each iteration lo..hi of the loop of compute_positions,
\* entered with `start`.
RECURSIVE RecordRange(_, _, _, _)
RecordRange(start, tr, lo, hi) ==
    IF lo > hi THEN <<>>
    ELSE IF lo = hi THEN <<ApplyRecord(start, tr[lo])>>
    ELSE LET mid == (lo + hi) \div 2
             left == RecordRange(start, tr, lo, mid)
         IN  left \o RecordRange(left[Len(left)], tr, mid + 1, hi)

RecordStates(tr) == RecordRange(<<>>, tr, 1, Len(tr))

-----------------------------------------------------------------------------
(***************************************************************************)
(* get_portfolio_summary: valuation of the open positions.                 *)
(***************************************************************************)
\* get_current_price: the quote's price, or None without a quote.
get_current_price(quotes, tk) ==
    IF quotes[tk] = None THEN None ELSE quotes[tk]

\* mv = current * qty if current else None (a Decimal of 0 is falsy)
MarketValue(current, qty) ==
    IF current # None /\ current # Zero THEN DecMul(current, qty) ELSE None

\* Mutant of UnrealizedProfit: the cost is not subtracted.
UnrealizedProfitGross(mv, cost) == mv

\* unrealized = (mv - cost) if mv is not None else None
UnrealizedProfit(mv, cost) ==
    IF mv # None THEN DecSub(mv, cost) ELSE None

\* Mutant of UnrealizedProfitPct: 0 instead of None where the cost is 0.
UnrealizedProfitPctOrZero(unrealized, cost) ==
    IF unrealized # None /\ cost # Zero
    THEN FloatMul(ToFloat(DecDiv(unrealized, cost)), FromInt(100))
    ELSE Zero

\* unrealized_pct = float(unrealized / cost) * 100, or None
UnrealizedProfitPct(unrealized, cost) ==
    IF unrealized # None /\ cost # Zero
    THEN FloatMul(ToFloat(DecDiv(unrealized, cost)), FromInt(100))
    ELSE None

\* average_buy_price = cost / qty if qty else 0
AverageBuyPrice(cost, qty) ==
    IF qty # Zero THEN DecDiv(cost, qty) ELSE Zero

Position(p, current, mv, unrealized) ==
    [ticker |-> p.ticker,
     total_quantity |-> p.quantity,
     average_buy_price |-> AverageBuyPrice(p.total_cost, p.quantity),
     total_cost |-> p.total_cost,
     current_price |-> current,
     market_value |-> mv,
     realized_profit |-> p.realized_profit,
     unrealized_profit |-> unrealized,
     unrealized_profit_pct |-> UnrealizedProfitPct(unrealized, p.total_cost)]

ValueAt(p, current, mv) ==
    Position(p, current, mv, UnrealizedProfit(mv, p.total_cost))

\* One Position of the summary, from its entry of positions_data.
ValuePosition(p, quotes) ==
    ValueAt(p, get_current_price(quotes, p.ticker),
            MarketValue(get_current_price(quotes, p.ticker), p.quantity))

ZeroTotals ==
    [total_cost |-> Zero, total_mv |-> Zero, total_realized |-> Zero,
     total_unrealized |-> Zero]

\* Mutant of AddToTotals: a position without a market value is counted as
\* a loss of its whole cost.
AddToTotalsUnpricedAsLoss(acc, v) ==
    [total_cost |-> DecAdd(acc.total_cost, v.total_cost),
     total_mv |-> IF v.market_value # None
                  THEN DecAdd(acc.total_mv, v.market_value)
                  ELSE acc.total_mv,
     total_unrealized |->
         IF v.market_value # None
         THEN DecAdd(acc.total_unrealized, v.unrealized_profit)
         ELSE DecSub(acc.total_unrealized, v.total_cost),
     total_realized |-> DecAdd(acc.total_realized, v.realized_profit)]

\* The body of the loop over positions_data, on the running totals.
AddToTotals(acc, v) ==
    [total_cost |-> DecAdd(acc.total_cost, v.total_cost),
     total_mv |-> IF v.market_value # None
                  THEN DecAdd(acc.total_mv, v.market_value)
                  ELSE acc.total_mv,
     total_unrealized |->
         IF v.market_value # None
         THEN DecAdd(acc.total_unrealized, v.unrealized_profit)
         ELSE acc.total_unrealized,
     total_realized |-> DecAdd(acc.total_realized, v.realized_profit)]

\* The totals once valued[1..k] have been added.
RECURSIVE Totals(_, _)
Totals(valued, k) ==
    IF k = 0 THEN ZeroTotals
    ELSE AddToTotals(Totals(valued, k - 1), valued[k])

\* Mutant of TotalReturnPct: the realized profit is left out.
TotalReturnPctUnrealizedOnly(total_cost, total_mv, total_realized) ==
    IF IsPositive(total_cost) /\ IsPositive(total_mv)
    THEN ToFloat(DecMul(DecDiv(DecSub(total_mv, total_cost), total_cost),
                        FromInt(100)))
    ELSE Zero

\* total_return_pct
TotalReturnPct(total_cost, total_mv, total_realized) ==
    IF IsPositive(total_cost) /\ IsPositive(total_mv)
    THEN ToFloat(DecMul(DecDiv(DecSub(DecAdd(total_mv, total_realized),
                                      total_cost),
                               total_cost),
                        FromInt(100)))
    ELSE Zero

Summary(valued, t) ==
    [total_cost |-> t.total_cost,
     total_market_value |-> t.total_mv,
     total_realized_profit |-> t.total_realized,
     total_unrealized_profit |-> t.total_unrealized,
     total_return_pct |->
         TotalReturnPct(t.total_cost, t.total_mv, t.total_realized),
     positions |-> valued]

SummaryOf(valued) == Summary(valued, Totals(valued, Len(valued)))

PortfolioSummary(positions_data, quotes) ==
    SummaryOf([k \in 1..Len(positions_data) |->
                  ValuePosition(positions_data[k], quotes)])

\* No summary has been returned by the last call.
NoSummary == [total_cost |-> None]

-----------------------------------------------------------------------------
(***************************************************************************)
(* core/analyzer.py: metrics of a price series.  A series is the sequence  *)
(* of its prices (Decimals); the dates of historical_prices are dropped by *)
(* analyze_stock before anything is computed.                              *)
(***************************************************************************)
\* Python's None where a string is expected.
NoneStr == "None"

\* bool(x) of an Optional[Decimal]: None and 0 are falsy.
Truthy(x) == x # None /\ x # Zero

\* ((curr - prev) / prev) * 100 on floats
PctChange(prev, curr) ==
    FloatMul(FloatDiv(FloatSub(curr, prev), prev), FromInt(100))

\* The running sums acc + s[lo], acc + s[lo] + s[lo+1], ... up to s[hi] on
\* floats, added from the left (the range is halved to keep the evaluation
\* shallow).
RECURSIVE FloatRunningSums(_, _, _, _)
FloatRunningSums(acc, s, lo, hi) ==
    IF lo > hi THEN <<>>
    ELSE IF lo = hi THEN <<FloatAdd(acc, s[lo])>>
    ELSE LET left == FloatRunningSums(acc, s, lo, (lo + hi) \div 2)
         IN  left \o FloatRunningSums(left[Len(left)], s,
                                      (lo + hi) \div 2 + 1, hi)

\* sum(...) of the floats s[1..k], added from the left.
FloatSum(s, k) ==
    IF k = 0 THEN Zero ELSE FloatRunningSums(Zero, s, 1, k)[k]

RECURSIVE DecRunningSums(_, _, _, _)
DecRunningSums(acc, s, lo, hi) ==
    IF lo > hi THEN <<>>
    ELSE IF lo = hi THEN <<DecAdd(acc, s[lo])>>
    ELSE LET left == DecRunningSums(acc, s, lo, (lo + hi) \div 2)
         IN  left \o DecRunningSums(left[Len(left)], s,
                                    (lo + hi) \div 2 + 1, hi)

\* sum(...) of the Decimals s[1..k], added from the left.
DecSum(s, k) ==
    IF k = 0 THEN Zero ELSE DecRunningSums(Zero, s, 1, k)[k]

Floats(prices) == [i \in 1..Len(prices) |-> ToFloat(prices[i])]

FloatMean(s) == FloatDiv(FloatSum(s, Len(s)), FromInt(Len(s)))

\* Mutant of DailyReturnOf: 0 instead of None after a price of 0.
DailyReturnOrZero(prev, curr) ==
    IF prev = Zero THEN Zero ELSE PctChange(prev, curr)

DailyReturnOf(prev, curr) ==
    IF prev = Zero THEN None ELSE PctChange(prev, curr)

compute_daily_return(prices) ==
    IF Len(prices) < 2 THEN None
    ELSE DailyReturnOf(ToFloat(prices[Len(prices) - 1]),
                       ToFloat(prices[Len(prices)]))

MonthlyReturnOf(old_avg, new_avg) ==
    IF old_avg = Zero THEN None ELSE PctChange(old_avg, new_avg)

\* Mutant of MonthlyReturnAt: the point at mid is in both halves.
MonthlyReturnAtOverlapping(floats, mid) ==
    MonthlyReturnOf(FloatMean(SubSeq(floats, 1, mid)),
                    FloatMean(SubSeq(floats, mid, Len(floats))))

MonthlyReturnAt(floats, mid) ==
    MonthlyReturnOf(FloatMean(SubSeq(floats, 1, mid)),
                    FloatMean(SubSeq(floats, mid + 1, Len(floats))))

\* Mutant of compute_monthly_return: 0 instead of None for a short series.
MonthlyReturnOrZero(prices) ==
    IF Len(prices) < 2 THEN Zero
    ELSE MonthlyReturnAt(Floats(prices), Max(1, Len(prices) \div 2))

compute_monthly_return(prices) ==
    IF Len(prices) < 2 THEN None
    ELSE MonthlyReturnAt(Floats(prices), Max(1, Len(prices) \div 2))

\* Mutant of VarianceDivisor: the population variance.
VarianceDivisorPopulation(n) == n

\* max(1, n - 1)
VarianceDivisor(n) == Max(1, n - 1)

SquaredDeviations(returns, mean_ret) ==
    [i \in 1..Len(returns) |->
        FloatMul(FloatSub(returns[i], mean_ret),
                 FloatSub(returns[i], mean_ret))]

Variance(sq) ==
    FloatDiv(FloatSum(sq, Len(sq)), FromInt(VarianceDivisor(Len(sq))))

\* 252 ** 0.5
Sqrt252 == FloatSqrt(FromInt(252))

AnnualizedPct(var) ==
    IF var[1] >= 0
    THEN FloatMul(FloatMul(FloatSqrt(var), Sqrt252), FromInt(100))
    ELSE None

compute_volatility(returns) ==
    IF returns = <<>> THEN None
    ELSE AnnualizedPct(Variance(SquaredDeviations(returns,
                                                  FloatMean(returns))))

\* Mutant of compute_moving_average: the mean of the first `window` points.
MovingAverageOfHead(prices, window) ==
    IF Len(prices) < window THEN None
    ELSE DecDiv(DecSum(SubSeq(prices, 1, window), window), FromInt(window))

compute_moving_average(prices, window) ==
    IF Len(prices) < window THEN None
    ELSE DecDiv(DecSum(SubSeq(prices, Len(prices) - window + 1,
                              Len(prices)), window),
                FromInt(window))

\* The returns of the steps floats[i-1] -> floats[i], i in lo..hi; a step
\* from a price of 0 is skipped.
RECURSIVE ReturnsOfSteps(_, _, _)
ReturnsOfSteps(floats, lo, hi) ==
    IF lo > hi THEN <<>>
    ELSE IF lo = hi
         THEN IF floats[lo - 1] # Zero
              THEN <<PctChange(floats[lo - 1], floats[lo])>>
              ELSE <<>>
    ELSE ReturnsOfSteps(floats, lo, (lo + hi) \div 2)
         \o ReturnsOfSteps(floats, (lo + hi) \div 2 + 1, hi)

compute_returns_from_prices(prices) ==
    ReturnsOfSteps(Floats(prices), 2, Len(prices))

\* prices = [p for _, p in historical_prices], and current_price appended
\* when it is > 0
EffectivePrices(current_price, historical_prices) ==
    IF current_price # None /\ IsPositive(current_price)
    THEN Append(historical_prices, current_price)
    ELSE historical_prices

\* Trend from MA, on floats
TrendOf(cp, m20, m50) ==
    IF RatLt(m20, cp) /\ RatLt(m50, m20) THEN "bullish"
    ELSE IF RatLt(cp, m20) /\ RatLt(m20, m50) THEN "bearish"
    ELSE "neutral"

growth_trend(current_price, ma20, ma50) ==
    IF Truthy(ma20) /\ Truthy(ma50) /\ Truthy(current_price)
    THEN TrendOf(ToFloat(current_price), ToFloat(ma20), ToFloat(ma50))
    ELSE NoneStr

\* The windows of the report's moving averages.
ShortWindow == 20

LongWindow == 50

AnalysisResult(current_price, prices, ma20, ma50) ==
    [current_price |-> current_price,
     prices |-> prices,
     daily_return_pct |->
         IF prices # <<>> THEN compute_daily_return(prices) ELSE None,
     monthly_return_pct |->
         IF prices # <<>> THEN compute_monthly_return(prices) ELSE None,
     volatility_annualized |->
         IF prices # <<>>
         THEN compute_volatility(compute_returns_from_prices(prices))
         ELSE None,
     ma_20 |-> ma20,
     ma_50 |-> ma50,
     growth_trend |-> growth_trend(current_price, ma20, ma50)]

AnalysisOf(current_price, prices) ==
    AnalysisResult(current_price, prices,
                   IF prices # <<>>
                   THEN compute_moving_average(prices, ShortWindow)
                   ELSE None,
                   IF prices # <<>>
                   THEN compute_moving_average(prices, LongWindow)
                   ELSE None)

analyze_stock(current_price, historical_prices) ==
    AnalysisOf(current_price,
               EffectivePrices(current_price, historical_prices))

\* Mutant of SignalOf: the price against the short average only.
SignalOfPriceOnly(cp, m20, m50) ==
    IF RatLt(m20, cp) THEN "BUY"
    ELSE IF RatLt(cp, m20) THEN "SELL"
    ELSE NoneStr

SignalOf(cp, m20, m50) ==
    IF RatLt(m50, m20) /\ RatLt(m20, cp) THEN "BUY"
    ELSE IF RatLt(m20, m50) /\ RatLt(cp, m20) THEN "SELL"
    ELSE NoneStr

detect_signal(current_price, ma20, ma50) ==
    IF ~Truthy(ma20) \/ ~Truthy(ma50) \/ ~Truthy(current_price)
    THEN NoneStr
    ELSE SignalOf(ToFloat(current_price), ToFloat(ma20), ToFloat(ma50))

\* The dictionary AgentTools.analyze_stock returns: the analyzer's result
\* and the signal derived from its current price and moving averages.
ToolReport(result) ==
    [error |-> FALSE,
     analysis |-> result,
     signal |-> detect_signal(result.current_price, result.ma_20,
                              result.ma_50)]

\* current_price, or the scraped quote's price when it is None (None when
\* there is no quote either).
ResolvedPrice(current_price, quote) ==
    IF current_price = None THEN quote ELSE current_price

\* {"error": ...} when no price was given and none could be scraped
tool_analyze_stock(current_price, quote, historical_prices) ==
    IF ResolvedPrice(current_price, quote) = None THEN [error |-> TRUE]
    ELSE ToolReport(analyze_stock(ResolvedPrice(current_price, quote),
                                  historical_prices))

\* No analysis has been returned by the last call.
NoAnalysis == [fn |-> NoneStr]

-----------------------------------------------------------------------------
(***************************************************************************)
(* alert_service.check_price_alerts: the rules, the test of one rule and   *)
(* the loop over the active rules.                                         *)
(***************************************************************************)
PriceRuleTypes == {"price_above", "price_below"}

PctRuleTypes == {"loss_pct", "gain_pct"}

\* The row crud.create_alert_rule inserts; last_triggered_at 0 is NULL.
AlertRule(id, u, tk, ty, threshold) ==
    [id |-> id, user_id |-> u, ticker |-> tk, rule_type |-> ty,
     threshold_value |-> threshold, is_active |-> TRUE,
     last_triggered_at |-> 0]

\* filter(AlertRule.is_active == True)
get_active_alert_rules(table) ==
    SelectSeq(table, LAMBDA rule : rule.is_active)

\* The quotes the summary's own scrape returns: `later` for ticker tk; the
\* quotes of the other tickers do not enter the position of tk.
QuotesLater(tk, later) == [x \in Tickers |-> IF x = tk THEN later ELSE None]

\* get_portfolio_summary(db, rule.user_id), `order` being the list its
\* query returns
SummaryFor(order, tk, later) ==
    PortfolioSummary(OpenPositions(FinalByTicker(FoldStates(order))),
                     QuotesLater(tk, later))

RECURSIVE PositionsWith(_, _)
PositionsWith(valued, tk) ==
    IF valued = <<>> THEN <<>>
    ELSE (IF Head(valued).ticker = tk THEN <<Head(valued)>> ELSE <<>>)
         \o PositionsWith(Tail(valued), tk)

\* pos_list = [p for p in get_portfolio_summary(...).positions
\*             if p.ticker == ticker]
PosList(order, tk, later) ==
    PositionsWith(SummaryFor(order, tk, later).positions, tk)

\* price >= rule.threshold_value
PriceAbove(price, threshold) == RatLe(threshold, price)

\* price <= rule.threshold_value
PriceBelow(price, threshold) == RatLe(price, threshold)

\* Mutant of LossBeyond: the threshold is not negated.
LossBeyondPlain(pct, threshold) ==
    pct # None /\ RatLe(pct, threshold)

\* pos.unrealized_profit_pct is not None
\*     and pos.unrealized_profit_pct <= -rule.threshold_value
LossBeyond(pct, threshold) ==
    pct # None /\ RatLe(pct, RatSub(Zero, threshold))

\* pos.unrealized_profit_pct is not None
\*     and pos.unrealized_profit_pct >= rule.threshold_value
GainBeyond(pct, threshold) ==
    pct # None /\ RatLe(threshold, pct)

\* The branch of the if / elif chain a rule with a quote takes, and whether
\* it notifies.
BranchFires(rule, price, pos_list) ==
    IF rule.rule_type = "price_above"
          /\ PriceAbove(price, rule.threshold_value)
    THEN TRUE
    ELSE IF rule.rule_type = "price_below"
               /\ PriceBelow(price, rule.threshold_value)
    THEN TRUE
    ELSE IF rule.rule_type = "loss_pct"
    THEN pos_list # <<>>
         /\ LossBeyond(pos_list[1].unrealized_profit_pct,
                       rule.threshold_value)
    ELSE IF rule.rule_type = "gain_pct"
    THEN pos_list # <<>>
         /\ GainBeyond(pos_list[1].unrealized_profit_pct,
                       rule.threshold_value)
    ELSE FALSE

\* One iteration of the loop: `if not quote: continue`, then the chain.
\* scrape.quote is the price of the rule's quote, scrape.later the price
\* the summary's scrape of the same ticker returns.
Fires(rule, scrape, order) ==
    /\ scrape.quote # None
    /\ BranchFires(rule, ToFloat(scrape.quote),
                   PosList(order, rule.ticker, scrape.later))

\* The third argument of telegram_notify.
AlertType(rule_type) ==
    IF rule_type \in PriceRuleTypes THEN "price_alert"
    ELSE IF rule_type = "loss_pct" THEN "loss_alert"
    ELSE "gain_alert"

\* The rules of rules[k..] that notify, in the order of the loop.
RECURSIVE FiredFrom(_, _, _, _)
FiredFrom(rules, scrapes, orders, k) ==
    IF k > Len(rules) THEN <<>>
    ELSE (IF Fires(rules[k], scrapes[rules[k].id],
                   orders[rules[k].user_id])
          THEN <<rules[k]>> ELSE <<>>)
         \o FiredFrom(rules, scrapes, orders, k + 1)

\* triggered.append({"rule_id": rule.id, "user_id": rule.user_id, ...})
TriggeredOf(fired) ==
    [k \in 1..Len(fired) |->
        [rule_id |-> fired[k].id, user_id |-> fired[k].user_id]]

\* telegram_notify(msg, rule.user_id, alert_type), with the rule whose
\* branch made the call
NotifiedOf(fired) ==
    [k \in 1..Len(fired) |->
        [user_id |-> fired[k].user_id,
         alert_type |-> AlertType(fired[k].rule_type),
         rule_id |-> fired[k].id]]

\* crud.update_alert_last_triggered for each rule that fired
StampFired(table, fired, now) ==
    [i \in 1..Len(table) |->
        IF \E k \in 1..Len(fired) : fired[k].id = table[i].id
        THEN [table[i] EXCEPT !.last_triggered_at = now]
        ELSE table[i]]

\* check_price_alerts has not run.
NoAlertRun == [now |-> 0]

-----------------------------------------------------------------------------
(***************************************************************************)
(* State: the table, and the last call with what it computed.              *)
(***************************************************************************)
VARIABLES
    transactions,  \* the transactions table, a bag of rows
    op,            \* the last operation called
    user_id,       \* its user_id argument
    trans,         \* the list its query returned
    fold,          \* by_ticker after each iteration of its loop
    positions,     \* the list compute_positions_simple returned
    summary,       \* the PortfolioSummary returned, or NoSummary
    analysis,      \* the arguments and the result of an analyzer call
    alert_rules,   \* the alert_rules table, in id order
    alert_run      \* the inputs and the effects of check_price_alerts

vars ==
    <<transactions, op, user_id, trans, fold, positions, summary, analysis,
      alert_rules, alert_run>>

Sides == {"BUY", "SELL"}

Dates == 1..2

\* The rows the model inserts.  quantity and price arrive unvalidated
\* (parse_transaction_text accepts 0, parse_transaction_csv any Decimal), so
\* three malformed rows are among them; one row belongs to another user.
PlainRows ==
    {Transaction(1, "A", ty, q, p, 0, d) :
        ty \in Sides, q \in 1..2, p \in 1..2, d \in Dates}

FeeRows == {Transaction(1, "A", ty, 2, 1, 1, d) : ty \in Sides, d \in Dates}

OtherTickerRows ==
    {Transaction(1, "B", "BUY", 1, 1, 0, d) : d \in Dates}
    \cup {Transaction(1, "B", "SELL", 1, 2, 0, d) : d \in Dates}

MalformedRows ==
    {Transaction(1, "A", "BUY", 0, 1, 1, 1),
     Transaction(1, "A", "SELL", 0, 1, 1, 1),
     Transaction(1, "A", "BUY", 1, 0, 0, 1)}

OtherUserRows == {Transaction(2, "A", "BUY", 1, 1, 0, 1)}

Rows ==
    PlainRows \cup FeeRows \cup OtherTickerRows \cup MalformedRows
    \cup OtherUserRows

\* The quotes the scraper may return: none, or a price.
QuotePrices == {None, FromInt(0), FromInt(3)}

Init ==
    /\ transactions = EmptyBag
    /\ op = "idle"
    /\ user_id = 0
    /\ trans = <<>>
    /\ fold = <<>>
    /\ positions = <<>>
    /\ summary = NoSummary
    /\ analysis = NoAnalysis
    /\ alert_rules = <<>>
    /\ alert_run = NoAlertRun

\* crud.create_transaction: add, commit
CreateTransaction(row, capacity) ==
    /\ op = "idle"
    /\ BagCardinality(transactions) < capacity
    /\ transactions' = transactions (+) SetToBag({row})
    /\ UNCHANGED <<op, user_id, trans, fold, positions, summary, analysis,
                 alert_rules, alert_run>>

\* Mutant of ComputePositionsSimple: the rows that were read are deleted.
ComputePositionsSimpleConsuming(u) ==
    /\ op = "idle"
    /\ \E tr \in get_user_transactions(transactions, u) :
        /\ op' = "compute_positions_simple"
        /\ user_id' = u
        /\ trans' = tr
        /\ fold' = FoldStates(tr)
        /\ positions' = OpenPositions(FinalByTicker(fold'))
        /\ summary' = NoSummary
        /\ transactions' = [r \in {x \in BagToSet(transactions) :
                                      x.user_id # u} |-> transactions[r]]
        /\ UNCHANGED <<analysis, alert_rules, alert_run>>

\* compute_positions_simple(db, user_id)
ComputePositionsSimple(u) ==
    /\ op = "idle"
    /\ \E tr \in get_user_transactions(transactions, u) :
        /\ op' = "compute_positions_simple"
        /\ user_id' = u
        /\ trans' = tr
        /\ fold' = FoldStates(tr)
        /\ positions' = OpenPositions(FinalByTicker(fold'))
        /\ summary' = NoSummary
        /\ UNCHANGED <<transactions, analysis, alert_rules, alert_run>>

\* get_portfolio_summary(db, user_id), with the quotes the scraper returns
GetPortfolioSummary(u) ==
    /\ op = "idle"
    /\ \E tr \in get_user_transactions(transactions, u) :
        LET states == FoldStates(tr)
            positions_data == OpenPositions(FinalByTicker(states))
        IN  \E quotes \in [Tickers -> QuotePrices] :
                /\ op' = "get_portfolio_summary"
                /\ user_id' = u
                /\ trans' = tr
                /\ fold' = states
                /\ positions' = positions_data
                /\ summary' = PortfolioSummary(positions_data, quotes)
                /\ UNCHANGED <<transactions, analysis, alert_rules,
                             alert_run>>

\* The caller has consumed the result of the call; its locals are gone.
Return ==
    /\ op # "idle"
    /\ op' = "idle"
    /\ user_id' = 0
    /\ trans' = <<>>
    /\ fold' = <<>>
    /\ positions' = <<>>
    /\ summary' = NoSummary
    /\ analysis' = NoAnalysis
    /\ alert_run' = NoAlertRun
    /\ UNCHANGED <<transactions, alert_rules>>

Next ==
    \/ \E row \in Rows : CreateTransaction(row, MaxTx)
    \/ \E u \in Users : ComputePositionsSimple(u)
    \/ \E u \in Users : GetPortfolioSummary(u)
    \/ Return

Spec == Init /\ [][Next]_vars

-----------------------------------------------------------------------------
(***************************************************************************)
(* An account that already holds Limit - 1 rows, to which newer rows are   *)
(* added: the query's limit comes into play.                               *)
(***************************************************************************)
OldRow == Transaction(1, "A", "BUY", 1, 1, 0, 1)

BulkRows ==
    {Transaction(1, "A", "BUY", 1, 1, 0, 2),
     Transaction(1, "A", "BUY", 2, 2, 0, 2),
     Transaction(1, "A", "SELL", 1, 2, 0, 2),
     Transaction(1, "B", "BUY", 1, 1, 0, 2),
     Transaction(2, "A", "BUY", 1, 1, 0, 2)}

InitBulk ==
    /\ transactions = [r \in {OldRow} |-> Limit - 1]
    /\ op = "idle"
    /\ user_id = 0
    /\ trans = <<>>
    /\ fold = <<>>
    /\ positions = <<>>
    /\ summary = NoSummary
    /\ analysis = NoAnalysis
    /\ alert_rules = <<>>
    /\ alert_run = NoAlertRun

NextBulk ==
    \/ \E row \in BulkRows : CreateTransaction(row, Limit - 1 + MaxTx)
    \/ \E u \in Users : ComputePositionsSimple(u)
    \/ \E u \in Users : GetPortfolioSummary(u)
    \/ Return

SpecBulk == InitBulk /\ [][NextBulk]_vars

-----------------------------------------------------------------------------
(***************************************************************************)
(* compute_positions called on the ledger.                                 *)
(***************************************************************************)
\* compute_positions(db, user_id)
ComputePositions(u) ==
    /\ op = "idle"
    /\ \E tr \in get_user_transactions(transactions, u) :
        /\ op' = "compute_positions"
        /\ user_id' = u
        /\ trans' = tr
        /\ fold' = RecordStates(tr)
        /\ positions' = OpenPositions(FinalByTicker(fold'))
        /\ summary' = NoSummary
        /\ UNCHANGED <<transactions, analysis, alert_rules, alert_run>>

NextCompare ==
    \/ \E row \in Rows : CreateTransaction(row, MaxTx)
    \/ \E u \in Users : ComputePositions(u)
    \/ Return

SpecCompare == Init /\ [][NextCompare]_vars

-----------------------------------------------------------------------------
(***************************************************************************)
(* The alert rules of the users and the job that checks them; the ledger   *)
(* holds at most one purchase.                                             *)
(***************************************************************************)
\* Rules the alert_rules table can hold.
MaxRules == 2

\* Runs of check_price_alerts that stamp a rule.
MaxRuns == 1

\* The largest last_triggered_at of the table; utcnow() is later.
RECURSIVE LastStamp(_)
LastStamp(table) ==
    IF table = <<>> THEN 0
    ELSE Max(Head(table).last_triggered_at, LastStamp(Tail(table)))

\* threshold_value of the rules created: a price for the price rules, a
\* percentage for the others.
ThresholdOf(ty) ==
    IF ty \in PriceRuleTypes THEN FromInt(2) ELSE FromInt(50)

AlertRows == {Transaction(1, "A", "BUY", 2, 2, 0, 1)}

\* The prices of the quotes a scrape returns; None when it returns no quote.
AlertQuotes == {None, FromInt(1), FromInt(3)}

\* What the scrapes made for one rule return.
Scrapes == [quote : AlertQuotes, later : AlertQuotes]

\* For each user, a list the transactions query may return.
QueryResults(table) ==
    {f \in [Users -> UNION {get_user_transactions(table, u) : u \in Users}] :
        \A u \in Users : f[u] \in get_user_transactions(table, u)}

\* crud.create_alert_rule(db, user_id, ticker, rule_type, threshold_value)
CreateAlertRule(u, tk, ty, threshold) ==
    /\ op = "idle"
    /\ Len(alert_rules) < MaxRules
    /\ alert_rules' = Append(alert_rules,
                             AlertRule(Len(alert_rules) + 1, u, tk, ty,
                                       threshold))
    /\ UNCHANGED <<transactions, op, user_id, trans, fold, positions,
                   summary, analysis, alert_run>>

\* crud.deactivate_alert_rule(db, rule_id, user_id)
DeactivateAlertRule(id, u) ==
    /\ op = "idle"
    /\ id \in 1..Len(alert_rules)
    /\ alert_rules[id].user_id = u
    /\ alert_rules' = [alert_rules EXCEPT ![id].is_active = FALSE]
    /\ UNCHANGED <<transactions, op, user_id, trans, fold, positions,
                   summary, analysis, alert_run>>

\* check_price_alerts(db, telegram_notify)
CheckPriceAlerts ==
    /\ op = "idle"
    /\ LastStamp(alert_rules) < MaxRuns
    /\ \E scrapes \in [1..Len(alert_rules) -> Scrapes],
          orders \in QueryResults(transactions) :
        LET fired == FiredFrom(get_active_alert_rules(alert_rules),
                               scrapes, orders, 1)
            now == LastStamp(alert_rules) + 1
        IN  /\ op' = "check_price_alerts"
            /\ alert_rules' = StampFired(alert_rules, fired, now)
            /\ alert_run' = [now |-> now,
                             rules |-> alert_rules,
                             scrapes |-> scrapes,
                             orders |-> orders,
                             triggered |-> TriggeredOf(fired),
                             notified |-> NotifiedOf(fired)]
    /\ UNCHANGED <<transactions, user_id, trans, fold, positions, summary,
                   analysis>>

NextAlerts ==
    \/ \E row \in AlertRows : CreateTransaction(row, 1)
    \/ \E u \in Users, ty \in PriceRuleTypes \cup PctRuleTypes :
           CreateAlertRule(u, "A", ty, ThresholdOf(ty))
    \/ \E id \in 1..MaxRules, u \in Users : DeactivateAlertRule(id, u)
    \/ CheckPriceAlerts
    \/ Return

SpecAlerts == Init /\ [][NextAlerts]_vars

-----------------------------------------------------------------------------
(***************************************************************************)
(* The analyzer's functions, called on their own.  A history is a run of   *)
(* one price followed by a run of another, long enough for both windows.   *)
(***************************************************************************)
Run(x, n) == [i \in 1..n |-> x]

SeriesPrices == {FromInt(1), FromInt(2), FromInt(3)}

OldRuns == {0, 1, LongWindow - ShortWindow}

RecentRuns == {0, 1, ShortWindow - 2, ShortWindow - 1, ShortWindow}

Histories ==
    {Run(a, m) \o Run(b, n) :
        a \in SeriesPrices, b \in SeriesPrices, m \in OldRuns,
        n \in RecentRuns}

\* current_price is a Decimal; analyze_stock tests it for > 0 and
\* detect_signal for truth, so 0 and a negative value are among the inputs.
CurrentPrices == {FromInt(-1), Zero} \cup SeriesPrices

Averages == {None} \cup SeriesPrices

\* The cached rows the tool reads: a price of 2 lately, after a lower or a
\* higher one.
CachedHistories ==
    {Run(a, m) \o Run(FromInt(2), n) :
        a \in {FromInt(1), FromInt(3)}, m \in {0, LongWindow - ShortWindow},
        n \in {1, ShortWindow - 1, ShortWindow}}

\* scrape_stock_price: no quote, or a quote, whose price is positive.
ScrapedQuotes == {None, FromInt(2)}

RECURSIVE SeqsUpTo(_, _)
SeqsUpTo(S, n) ==
    IF n = 0 THEN {<<>>}
    ELSE SeqsUpTo(S, n - 1)
         \cup {Append(q, x) : q \in SeqsUpTo(S, n - 1), x \in S}

ShortSeries == SeqsUpTo({FromInt(1), FromInt(2), FromInt(4)}, MaxSeries)

\* Series of any Decimal prices: 0 and a negative price are among them.
PriceSeries ==
    SeqsUpTo({FromInt(-1), Zero, FromInt(1), FromInt(2)}, MaxSeries)

Windows == {1, 3}

ReturnValues == {Zero, FromInt(50), FromInt(-50), <<25, 2>>}

ReturnLists == SeqsUpTo(ReturnValues, MaxReturns)

\* analyze_stock(ticker, current_price, historical_prices)
AnalyzeStock(current_price, historical_prices) ==
    /\ op = "idle"
    /\ op' = "analyze_stock"
    /\ analysis' = [fn |-> "analyze_stock",
                    args |-> <<current_price, historical_prices>>,
                    result |-> analyze_stock(current_price,
                                             historical_prices)]
    /\ UNCHANGED <<transactions, user_id, trans, fold, positions, summary,
                 alert_rules, alert_run>>

\* detect_signal(current_price, ma20, ma50)
DetectSignal(current_price, ma20, ma50) ==
    /\ op = "idle"
    /\ op' = "detect_signal"
    /\ analysis' = [fn |-> "detect_signal",
                    args |-> <<current_price, ma20, ma50>>,
                    result |-> detect_signal(current_price, ma20, ma50)]
    /\ UNCHANGED <<transactions, user_id, trans, fold, positions, summary,
                 alert_rules, alert_run>>

\* compute_moving_average(prices, window)
ComputeMovingAverage(prices, window) ==
    /\ op = "idle"
    /\ op' = "compute_moving_average"
    /\ analysis' = [fn |-> "compute_moving_average",
                    args |-> <<prices, window>>,
                    result |-> compute_moving_average(prices, window)]
    /\ UNCHANGED <<transactions, user_id, trans, fold, positions, summary,
                 alert_rules, alert_run>>

\* compute_volatility(returns)
ComputeVolatility(returns) ==
    /\ op = "idle"
    /\ op' = "compute_volatility"
    /\ analysis' = [fn |-> "compute_volatility",
                    args |-> <<returns>>,
                    result |-> compute_volatility(returns)]
    /\ UNCHANGED <<transactions, user_id, trans, fold, positions, summary,
                 alert_rules, alert_run>>

\* compute_daily_return(prices)
ComputeDailyReturn(prices) ==
    /\ op = "idle"
    /\ op' = "compute_daily_return"
    /\ analysis' = [fn |-> "compute_daily_return",
                    args |-> <<prices>>,
                    result |-> compute_daily_return(prices)]
    /\ UNCHANGED <<transactions, user_id, trans, fold, positions, summary,
                 alert_rules, alert_run>>

\* compute_monthly_return(prices)
ComputeMonthlyReturn(prices) ==
    /\ op = "idle"
    /\ op' = "compute_monthly_return"
    /\ analysis' = [fn |-> "compute_monthly_return",
                    args |-> <<prices>>,
                    result |-> compute_monthly_return(prices)]
    /\ UNCHANGED <<transactions, user_id, trans, fold, positions, summary,
                 alert_rules, alert_run>>

\* compute_returns_from_prices(prices)
ComputeReturnsFromPrices(prices) ==
    /\ op = "idle"
    /\ op' = "compute_returns_from_prices"
    /\ analysis' = [fn |-> "compute_returns_from_prices",
                    args |-> <<prices>>,
                    result |-> compute_returns_from_prices(prices)]
    /\ UNCHANGED <<transactions, user_id, trans, fold, positions, summary,
                 alert_rules, alert_run>>

\* AgentTools.analyze_stock(ticker, current_price, historical_prices): the
\* price is the caller's or a quote scraped now, the history the caller's or
\* the cached rows of the last 90 days in ascending date order.  The i-th
\* point of the history is dated i; priced_at is the date of the price, the
\* last cached date when the cache already holds it, the next one otherwise.
ToolAnalyzeStock(current_price, quote, historical_prices, priced_at) ==
    /\ op = "idle"
    /\ op' = "tools.analyze_stock"
    /\ analysis' = [fn |-> "tools.analyze_stock",
                    args |-> <<ResolvedPrice(current_price, quote),
                               historical_prices, priced_at>>,
                    result |-> tool_analyze_stock(current_price, quote,
                                                  historical_prices)]
    /\ UNCHANGED <<transactions, user_id, trans, fold, positions, summary,
                 alert_rules, alert_run>>

NextAnalyzer ==
    \/ \E cp \in CurrentPrices, h \in Histories : AnalyzeStock(cp, h)
    \/ \E cp \in {None} \cup CurrentPrices, q \in ScrapedQuotes,
          h \in CachedHistories, late \in 0..1 :
           ToolAnalyzeStock(cp, q, h, Len(h) + late)
    \/ \E cp \in CurrentPrices, m20 \in Averages, m50 \in Averages :
           DetectSignal(cp, m20, m50)
    \/ \E prices \in ShortSeries, w \in Windows :
           ComputeMovingAverage(prices, w)
    \/ \E returns \in ReturnLists : ComputeVolatility(returns)
    \/ \E prices \in PriceSeries : ComputeDailyReturn(prices)
    \/ \E prices \in PriceSeries : ComputeMonthlyReturn(prices)
    \/ \E prices \in PriceSeries : ComputeReturnsFromPrices(prices)
    \/ Return

SpecAnalyzer == Init /\ [][NextAnalyzer]_vars

-----------------------------------------------------------------------------
(***************************************************************************)
(* Properties.                                                             *)
(***************************************************************************)
\* The last call ran the aggregation and its result has not been consumed.
Aggregated == op \in {"compute_positions_simple", "get_portfolio_summary"}

\* The entries of a list of positions, whatever their order.
EntrySet(entries) == {entries[i] : i \in 1..Len(entries)}

\* The entry of ticker tk in a dict of the fold; zero when it has none.
EntryOf(by_ticker, tk) ==
    IF HasTicker(by_ticker, tk) THEN by_ticker[IndexOf(by_ticker, tk)]
    ELSE NewEntry(tk)

\* The dict before iteration k of the loop of the last call.
Before(k) == IF k = 1 THEN <<>> ELSE fold[k - 1]

\* realized_profit summed over a list of entries.
RECURSIVE RealizedSum(_)
RealizedSum(entries) ==
    IF entries = <<>> THEN Zero
    ELSE DecAdd(Head(entries).realized_profit, RealizedSum(Tail(entries)))

\* C1: two aggregations of the same set of transactions give identical
\* positions: whatever list the query returns for the table, the positions
\* computed from it are the ones the last call returned.
C1_SameSetSamePositions ==
    Aggregated =>
        \A tr \in get_user_transactions(transactions, user_id) :
            EntrySet(OpenPositions(FinalByTicker(FoldStates(tr))))
                = EntrySet(positions)

\* C2: the transactions of a ticker are folded in non-decreasing
\* transaction_date order.
C2_FoldedChronologically ==
    Aggregated =>
        \A i, j \in 1..Len(trans) :
            (i < j /\ trans[i].ticker = trans[j].ticker)
                => trans[i].transaction_date <= trans[j].transaction_date

\* C3: in every state of the fold and in every returned position the
\* quantity held is >= 0.
C3_QuantityNeverNegative ==
    /\ \A k \in 1..Len(fold) : \A i \in 1..Len(fold[k]) :
           fold[k][i].quantity[1] >= 0
    /\ \A i \in 1..Len(positions) : positions[i].quantity[1] >= 0

\* C4: total_realized_profit of the summary is the realized profit of every
\* ticker of the fold, closed tickers included.
C4_ClosedRealizedInTotal ==
    op = "get_portfolio_summary" =>
        summary.total_realized_profit = RealizedSum(FinalByTicker(fold))

\* C5: every transaction of the account is folded, whatever their number.
C5_FullHistoryFolded ==
    Aggregated =>
        Len(trans) = BagCardinality(RowsOfUser(transactions, user_id))

\* A record the ledger's invariant allows: quantity > 0 and price > 0.
WellFormed(t) == t.quantity > 0 /\ t.price > 0

\* qty * price + fees and qty summed over the rows of ticker tk, exactly.
RECURSIVE CostSum(_, _)
CostSum(tr, tk) ==
    IF tr = <<>> THEN 0
    ELSE (IF Head(tr).ticker = tk
          THEN Head(tr).quantity * Head(tr).price + Head(tr).fees ELSE 0)
         + CostSum(Tail(tr), tk)

RECURSIVE QuantitySum(_, _)
QuantitySum(tr, tk) ==
    IF tr = <<>> THEN 0
    ELSE (IF Head(tr).ticker = tk THEN Head(tr).quantity ELSE 0)
         + QuantitySum(Tail(tr), tk)

OnlyBuys == \A i \in 1..Len(trans) : trans[i].transaction_type = "BUY"

\* C6: when only BUY records are folded, each ticker's realized profit is
\* 0, its cost basis the sum of qty * price + fees over its records and its
\* quantity the sum of their qty.
C6_BuyOnlyTotals ==
    (Aggregated /\ OnlyBuys) =>
        \A tk \in Tickers :
            /\ EntryOf(FinalByTicker(fold), tk).realized_profit = Zero
            /\ EntryOf(FinalByTicker(fold), tk).total_cost
                   = FromInt(CostSum(trans, tk))
            /\ EntryOf(FinalByTicker(fold), tk).quantity
                   = FromInt(QuantitySum(trans, tk))

\* A fold of BUY records only, some with fees, over both tickers.
C6_Witness ==
    /\ Aggregated
    /\ OnlyBuys
    /\ Len(trans) >= 3
    /\ \E i \in 1..Len(trans) : trans[i].fees > 0 /\ trans[i].quantity > 0
    /\ \A tk \in Tickers : HasTicker(FinalByTicker(fold), tk)

\* C7: in a fold of well-formed records, a SELL met with quantity_held > 0 removes
\* sell_qty = min(qty, quantity_held) at the average cost before the sell
\* from cost basis and quantity, and adds the proceeds less that cost to
\* the realized profit.
C7_SellAtAverageCost ==
    \A k \in 1..Len(fold) :
        LET t == trans[k]
            old == EntryOf(Before(k), t.ticker)
            new == EntryOf(fold[k], t.ticker)
            qty == ToDecimal(t.quantity)
            sell_qty == DecMin(qty, old.quantity)
            cost_removed ==
                DecMul(sell_qty, DecDiv(old.total_cost, old.quantity))
            proceeds ==
                DecSub(DecMul(sell_qty, ToDecimal(t.price)),
                       DecDiv(DecMul(ToDecimal(t.fees), sell_qty), qty))
        IN  (t.transaction_type = "SELL" /\ IsPositive(old.quantity)
                 /\ \A i \in 1..Len(trans) : WellFormed(trans[i])) =>
                /\ new.total_cost = DecSub(old.total_cost, cost_removed)
                /\ new.quantity = DecSub(old.quantity, sell_qty)
                /\ new.realized_profit
                       = DecAdd(old.realized_profit,
                                DecSub(proceeds, cost_removed))

\* Iteration k of the last fold sells exactly the quantity held of its
\* ticker, and no later iteration touches that ticker.
ClosingSell(k) ==
    /\ trans[k].transaction_type = "SELL"
    /\ IsPositive(EntryOf(Before(k), trans[k].ticker).quantity)
    /\ ToDecimal(trans[k].quantity)
           = EntryOf(Before(k), trans[k].ticker).quantity
    /\ \A j \in (k + 1)..Len(trans) : trans[j].ticker # trans[k].ticker

\* C8: a ticker closed by a sale of exactly the quantity held ends at
\* quantity 0, is not among the returned positions, and its realized profit
\* is in what the aggregation returns.
C8_FullSellCarried ==
    Aggregated =>
        \A k \in 1..Len(trans) :
            ClosingSell(k) =>
                /\ EntryOf(FinalByTicker(fold), trans[k].ticker).quantity
                       = Zero
                /\ ~HasTicker(positions, trans[k].ticker)
                /\ EntryOf(positions, trans[k].ticker).realized_profit
                       = EntryOf(FinalByTicker(fold),
                                 trans[k].ticker).realized_profit

\* C9: every returned position has quantity > 0, every ticker folded to a
\* quantity > 0 is returned, and an empty list of transactions gives an
\* empty result.
C9_OnlyOpenReturned ==
    Aggregated =>
        /\ \A i \in 1..Len(positions) : positions[i].quantity[1] > 0
        /\ \A e \in EntrySet(FinalByTicker(fold)) :
               e.quantity[1] > 0 => e \in EntrySet(positions)
        /\ trans = <<>> => positions = <<>>

\* A fold that ends with one ticker open and another not.
C9_Witness ==
    /\ Aggregated
    /\ \A i \in 1..Len(trans) : WellFormed(trans[i])
    /\ Len(positions) = 1
    /\ Len(FinalByTicker(fold)) = 2

\* C10: a malformed record changes no ticker's quantity, cost basis or
\* realized profit: the fold ends as the fold of the well-formed records.
C10_MalformedRejected ==
    Aggregated =>
        \A tk \in Tickers :
            EntryOf(FinalByTicker(fold), tk)
                = EntryOf(FinalByTicker(FoldStates(SelectSeq(trans,
                                                             WellFormed))),
                          tk)

\* The price each ticker was valued at in a summary (None for a ticker that
\* has no position in it).
QuotesSeen(s) ==
    [tk \in Tickers |->
        IF \E k \in 1..Len(s.positions) : s.positions[k].ticker = tk
        THEN s.positions[CHOOSE k \in 1..Len(s.positions) :
                             s.positions[k].ticker = tk].current_price
        ELSE None]

C12_PartialPricesTolerated ==
    op = "get_portfolio_summary" =>
        /\ Len(summary.positions) = Len(positions)
        /\ \A k \in 1..Len(positions) :
               /\ summary.positions[k].ticker = positions[k].ticker
               /\ summary.positions[k].current_price = None =>
                      /\ summary.positions[k].market_value = None
                      /\ summary.positions[k].unrealized_profit = None
                      /\ summary.positions[k].unrealized_profit_pct = None
               /\ summary.positions[k].current_price # None =>
                      /\ summary.positions[k].market_value # None
                      /\ summary.positions[k].market_value
                             = DecMul(summary.positions[k].current_price,
                                      positions[k].quantity)
                      /\ summary.positions[k].unrealized_profit
                             = DecSub(summary.positions[k].market_value,
                                      positions[k].total_cost)

\* C13: a position of cost 0 has unrealized_profit_pct None; a position of
\* cost # 0 with a market value has
\* unrealized_profit_pct = unrealized_profit / cost * 100.
C13_NoDivisionByZero ==
    op = "get_portfolio_summary" =>
        \A k \in 1..Len(summary.positions) :
            /\ summary.positions[k].total_cost = Zero =>
                   summary.positions[k].unrealized_profit_pct = None
            /\ (summary.positions[k].total_cost # Zero
                    /\ summary.positions[k].market_value # None) =>
                   summary.positions[k].unrealized_profit_pct
                       = FloatMul(ToFloat(DecDiv(
                             summary.positions[k].unrealized_profit,
                             summary.positions[k].total_cost)), FromInt(100))

\* A priced position of cost 0 beside a priced position of cost # 0.
C13_Witness ==
    /\ op = "get_portfolio_summary"
    /\ \E k \in 1..Len(summary.positions) :
           /\ summary.positions[k].total_cost = Zero
           /\ summary.positions[k].market_value # None
    /\ \E k \in 1..Len(summary.positions) :
           /\ summary.positions[k].total_cost # Zero
           /\ summary.positions[k].market_value # None
           /\ summary.positions[k].unrealized_profit_pct # Zero

\* Some position of the summary has a market value.
SomeMarketValue ==
    \E k \in 1..Len(summary.positions) :
        summary.positions[k].market_value # None

RECURSIVE MarketValueSum(_, _)
MarketValueSum(valued, k) ==
    IF k = 0 THEN Zero
    ELSE IF valued[k].market_value = None THEN MarketValueSum(valued, k - 1)
    ELSE DecAdd(MarketValueSum(valued, k - 1), valued[k].market_value)

RECURSIVE UnrealizedSum(_, _)
UnrealizedSum(valued, k) ==
    IF k = 0 THEN Zero
    ELSE IF valued[k].market_value = None THEN UnrealizedSum(valued, k - 1)
    ELSE DecAdd(UnrealizedSum(valued, k - 1),
                DecSub(valued[k].market_value, valued[k].total_cost))

\* C15: total_market_value is the sum of market_value over the positions
\* that have one and total_unrealized_profit the sum of market_value - cost
\* over the same positions.
C15_TotalsOverPricedPositions ==
    op = "get_portfolio_summary" =>
        /\ summary.total_market_value
               = MarketValueSum(summary.positions, Len(summary.positions))
        /\ summary.total_unrealized_profit
               = UnrealizedSum(summary.positions, Len(summary.positions))

\* A summary of one position with a market value and one without.
C15_Witness ==
    /\ op = "get_portfolio_summary"
    /\ SomeMarketValue
    /\ \E k \in 1..Len(summary.positions) :
           /\ summary.positions[k].market_value = None
           /\ summary.positions[k].total_cost # Zero


\* C16: the signal is BUY iff ma_short > ma_long and current_price >
\* ma_short, SELL iff ma_short < ma_long and current_price < ma_short, and
\* None otherwise; it is None whenever an average is missing or the current
\* price is not positive.
C16_SignalRule ==
    op = "detect_signal" =>
        analysis.result
            = IF analysis.args[2] = None \/ analysis.args[3] = None
                     \/ analysis.args[1][1] <= 0
              THEN NoneStr
              ELSE IF RatLt(analysis.args[3], analysis.args[2])
                          /\ RatLt(analysis.args[2], analysis.args[1])
                   THEN "BUY"
              ELSE IF RatLt(analysis.args[2], analysis.args[3])
                          /\ RatLt(analysis.args[1], analysis.args[2])
                   THEN "SELL"
              ELSE NoneStr

\* C17: the trend is unknown (None) iff an average is None, and otherwise
\* bullish iff current_price > ma_short > ma_long, bearish iff
\* current_price < ma_short < ma_long, and neutral in every other case.
C17_TrendRule ==
    op = "analyze_stock" =>
        analysis.result.growth_trend
            = IF analysis.result.ma_20 = None \/ analysis.result.ma_50 = None
              THEN NoneStr
              ELSE IF RatLt(analysis.result.ma_20,
                            analysis.result.current_price)
                          /\ RatLt(analysis.result.ma_50,
                                   analysis.result.ma_20)
                   THEN "bullish"
              ELSE IF RatLt(analysis.result.current_price,
                            analysis.result.ma_20)
                          /\ RatLt(analysis.result.ma_20,
                                   analysis.result.ma_50)
                   THEN "bearish"
              ELSE "neutral"

\* The sum of the prices s[lo..hi] (integers here), exactly.
RECURSIVE PriceSum(_, _, _)
PriceSum(s, lo, hi) ==
    IF lo > hi THEN 0
    ELSE IF lo = hi THEN s[lo][1]
    ELSE PriceSum(s, lo, (lo + hi) \div 2)
         + PriceSum(s, (lo + hi) \div 2 + 1, hi)

\* None for a series shorter than w, else the mean of its last w points.
MeanOfLast(prices, w) ==
    IF Len(prices) < w THEN None
    ELSE DecDiv(FromInt(PriceSum(prices, Len(prices) - w + 1, Len(prices))),
                FromInt(w))

\* C18: a moving average over a window w is None iff the series has fewer
\* than w points and is otherwise the mean of its last w points; the report
\* uses the windows 20 and 50.
C18_MovingAverage ==
    /\ op = "compute_moving_average" =>
           analysis.result = MeanOfLast(analysis.args[1], analysis.args[2])
    /\ op = "analyze_stock" =>
           /\ analysis.result.ma_20 = MeanOfLast(analysis.result.prices, 20)
           /\ analysis.result.ma_50 = MeanOfLast(analysis.result.prices, 50)

\* A report whose two averages exist and differ.
C18_Witness ==
    /\ op = "analyze_stock"
    /\ analysis.result.ma_50 # None
    /\ analysis.result.ma_20 # analysis.result.ma_50
    /\ analysis.result.prices[1] # analysis.result.prices[50]

\* C19: analyze_stock on a series of a single point returns None for the
\* daily return, the period return, the volatility and both moving
\* averages, and the current price it was given.
C19_SinglePoint ==
    (op = "analyze_stock" /\ Len(analysis.result.prices) = 1) =>
        /\ analysis.result.daily_return_pct = None
        /\ analysis.result.monthly_return_pct = None
        /\ analysis.result.volatility_annualized = None
        /\ analysis.result.ma_20 = None
        /\ analysis.result.ma_50 = None
        /\ analysis.result.current_price = analysis.args[1]
        /\ analysis.result.current_price # None

\* The current price alone is the series.
C19_Witness ==
    /\ op = "analyze_stock"
    /\ analysis.args[2] = <<>>
    /\ analysis.result.prices = <<analysis.args[1]>>

\* C20: the volatility is None iff the list of returns is empty; otherwise
\* it is sqrt(sum((r - mean)^2) / max(1, n - 1)) * sqrt(252) * 100 and is
\* >= 0, for a single return and for all-zero returns too.
C20_Volatility ==
    op = "compute_volatility" =>
        /\ analysis.result = None <=> analysis.args[1] = <<>>
        /\ analysis.args[1] # <<>> =>
               /\ analysis.result[1] >= 0
               /\ analysis.result
                      = FloatMul(FloatMul(FloatSqrt(FloatDiv(
                            FloatSum(SquaredDeviations(analysis.args[1],
                                         FloatMean(analysis.args[1])),
                                     Len(analysis.args[1])),
                            FromInt(Max(1, Len(analysis.args[1]) - 1)))),
                            Sqrt252), FromInt(100))
        /\ (analysis.args[1] # <<>>
                /\ \A i \in 1..Len(analysis.args[1]) :
                       analysis.args[1][i] = analysis.args[1][1]) =>
               analysis.result = Zero

\* Three returns that are not all equal.
C20_Witness ==
    /\ op = "compute_volatility"
    /\ Len(analysis.args[1]) = 3
    /\ analysis.args[1][1] # analysis.args[1][3]
    /\ analysis.result[1] > 0


\* C21 (effective price sequence): the prices the tool's analysis is computed
\* from are the historical series with the current price appended as its
\* last point only if that price is positive and newer than the last point
\* of the series; otherwise they are the historical series unchanged.
NewerThanSeries(priced_at, historical_prices) ==
    historical_prices = <<>> \/ priced_at > Len(historical_prices)

C21_EffectivePrices ==
    (analysis.fn = "tools.analyze_stock" /\ ~analysis.result.error)
        => analysis.result.analysis.prices =
               IF IsPositive(analysis.args[1])
                  /\ NewerThanSeries(analysis.args[3], analysis.args[2])
               THEN Append(analysis.args[2], analysis.args[1])
               ELSE analysis.args[2]

\* A SELL folded while the quantity held of its ticker is 0.
SellAtZero(k) ==
    /\ trans[k].transaction_type = "SELL"
    /\ EntryOf(Before(k), trans[k].ticker).quantity = Zero

\* qty * price - fees of the k-th folded record
PureProceeds(k) ==
    DecSub(DecMul(ToDecimal(trans[k].quantity), ToDecimal(trans[k].price)),
           ToDecimal(trans[k].fees))

\* C22 (sale at quantity 0): a SELL applied while the quantity held of the
\* ticker is 0 removes no cost and adds the pure proceeds of the sale to
\* realized_profit.
C22_SellAtZeroPureProceeds ==
    \A k \in 1..Len(fold) :
        SellAtZero(k) =>
            /\ EntryOf(fold[k], trans[k].ticker).total_cost
                   = EntryOf(Before(k), trans[k].ticker).total_cost
            /\ EntryOf(fold[k], trans[k].ticker).realized_profit
                   = DecAdd(EntryOf(Before(k),
                                    trans[k].ticker).realized_profit,
                            PureProceeds(k))

\* ((curr - prev) / prev) * 100, exactly
ExactPctChange(prev, curr) ==
    RatMul(RatDiv(RatSub(curr, prev), prev), FromInt(100))

\* The steps i of a series whose previous price prices[i - 1] is not 0.
StepsKept(prices) == {i \in 2..Len(prices) : prices[i - 1] # Zero}

\* The place of step i among the steps kept.
RankOfStep(prices, i) == Cardinality({m \in StepsKept(prices) : m <= i})

DailyReturnRule(prices, result) ==
    /\ result = None <=> (Len(prices) < 2
                           \/ prices[Len(prices) - 1] = Zero)
    /\ result # None =>
           result = ExactPctChange(prices[Len(prices) - 1],
                                   prices[Len(prices)])

PairwiseReturnsRule(prices, result) ==
    /\ Len(result) = Cardinality(StepsKept(prices))
    /\ \A i \in StepsKept(prices) :
           result[RankOfStep(prices, i)]
               = ExactPctChange(prices[i - 1], prices[i])

\* C23 (daily and pairwise returns): the daily return is null iff the series
\* has fewer than 2 points or its second-to-last price is 0, and otherwise
\* the percent change from the second-to-last to the last point; the
\* pairwise returns skip exactly the pairs whose previous price is 0.
C23_DailyAndPairwiseReturns ==
    /\ analysis.fn = "compute_daily_return"
           => DailyReturnRule(analysis.args[1], analysis.result)
    /\ analysis.fn = "compute_returns_from_prices"
           => PairwiseReturnsRule(analysis.args[1], analysis.result)

\* A daily return of None because of a price of 0, and a list of returns with
\* a pair skipped between two pairs kept.
C23_Witness ==
    \/ /\ analysis.fn = "compute_daily_return"
       /\ Len(analysis.args[1]) >= 2
       /\ analysis.result = None
    \/ /\ analysis.fn = "compute_returns_from_prices"
       /\ Len(analysis.args[1]) = 4
       /\ analysis.args[1][2] = Zero
       /\ Len(analysis.result) = 2

\* The two halves of a series of n points split at n // 2.
FirstHalf(prices) == SubSeq(prices, 1, Len(prices) \div 2)

SecondHalf(prices) ==
    SubSeq(prices, Len(prices) \div 2 + 1, Len(prices))

PeriodReturnRule(prices, result) ==
    /\ Len(FirstHalf(prices)) >= 1
    /\ Len(SecondHalf(prices)) >= 1
    /\ FirstHalf(prices) \o SecondHalf(prices) = prices
    /\ result = None <=> FloatMean(Floats(FirstHalf(prices))) = Zero
    /\ result # None =>
           result = PctChange(FloatMean(Floats(FirstHalf(prices))),
                              FloatMean(Floats(SecondHalf(prices))))

PartialSell(k) ==
    /\ trans[k].transaction_type = "SELL"
    /\ \A j \in 1..k : WellFormed(trans[j])
    /\ IsPositive(EntryOf(Before(k), trans[k].ticker).quantity)
    /\ IsPositive(EntryOf(fold[k], trans[k].ticker).quantity)

\* total_cost / quantity of an entry, exactly
AverageCost(e) == RatDiv(e.total_cost, e.quantity)

\* C25 (a sale keeps the average cost): a SELL that leaves a quantity held
\* > 0 does not change the ticker's average cost: cost basis / quantity is
\* the same after it as before it.
C25_SellKeepsAverageCost ==
    \A k \in 1..Len(fold) :
        PartialSell(k) =>
            AverageCost(EntryOf(fold[k], trans[k].ticker))
                = AverageCost(EntryOf(Before(k), trans[k].ticker))

\* C26 (cost basis and quantity): in every state of the fold of well-formed
\* records, for every ticker, the cost basis is >= 0, and it is exactly 0
\* whenever the quantity held is 0.
C26_CostBasisFollowsQuantity ==
    (\A j \in 1..Len(trans) : WellFormed(trans[j])) =>
        \A k \in 1..Len(fold) : \A i \in 1..Len(fold[k]) :
            /\ fold[k][i].total_cost[1] >= 0
            /\ fold[k][i].quantity = Zero => fold[k][i].total_cost = Zero

\* The rows of ticker tk in a table.
OnlyTicker(table, tk) ==
    [r \in {x \in DOMAIN table : x.ticker = tk} |-> table[r]]

\* C27 (tickers are independent): a folded transaction leaves the entry of
\* every other ticker unchanged, and the position returned for a ticker is
\* the one returned when the account holds that ticker's transactions alone.
C27_TickersIndependent ==
    Aggregated =>
        /\ \A k \in 1..Len(fold) : \A tk \in Tickers \ {trans[k].ticker} :
               EntryOf(fold[k], tk) = EntryOf(Before(k), tk)
        /\ \A tk \in Tickers :
               \E own \in get_user_transactions(
                               OnlyTicker(transactions, tk), user_id) :
                   EntryOf(positions, tk)
                       = EntryOf(OpenPositions(FinalByTicker(
                                     FoldStates(own))), tk)

\* C28 (signal and trend agree): in the tool's analysis the signal is BUY
\* exactly when the trend is bullish, SELL exactly when it is bearish, and
\* null exactly when the trend is neutral or absent.
C28_SignalAgreesWithTrend ==
    (analysis.fn = "tools.analyze_stock" /\ ~analysis.result.error) =>
        /\ analysis.result.signal = "BUY"
               <=> analysis.result.analysis.growth_trend = "bullish"
        /\ analysis.result.signal = "SELL"
               <=> analysis.result.analysis.growth_trend = "bearish"
        /\ analysis.result.signal = NoneStr
               <=> analysis.result.analysis.growth_trend
                       \in {"neutral", NoneStr}

\* A report with both averages, the short one between the long one and the
\* price.
C28_Witness ==
    /\ analysis.fn = "tools.analyze_stock"
    /\ ~analysis.result.error
    /\ analysis.result.analysis.ma_50 # None
    /\ analysis.result.signal = "SELL"

\* No SELL of tr exceeds the quantity held of its ticker when it is folded.
NoOversell(tr) ==
    \A k \in 1..Len(tr) :
        tr[k].transaction_type = "SELL" =>
            RatLe(ToDecimal(tr[k].quantity),
                  EntryOf(IF k = 1 THEN <<>> ELSE FoldStates(tr)[k - 1],
                          tr[k].ticker).quantity)

\* The same tickers with the same quantity, cost basis and realized profit.
SameFigures(full, simple) ==
    /\ Len(full) = Len(simple)
    /\ \A i \in 1..Len(full) :
           /\ full[i].ticker = simple[i].ticker
           /\ full[i].quantity = simple[i].quantity
           /\ full[i].cost_basis = simple[i].total_cost
           /\ full[i].realized_profit = simple[i].realized_profit

\* C29 (the two folds agree): on a ledger of well-formed records in which no
\* SELL exceeds the quantity held at that point, compute_positions returns
\* the open tickers compute_positions_simple returns, with the same
\* quantity, cost basis and realized profit.
C29_FoldsAgree ==
    (/\ op = "compute_positions"
     /\ \A j \in 1..Len(trans) : WellFormed(trans[j])
     /\ NoOversell(trans))
        => SameFigures(positions,
                       OpenPositions(FinalByTicker(FoldStates(trans))))

\* The number of notifications the rule of id i has sent in the last run,
\* and of its entries in the returned list.
NotificationsOf(i) ==
    Cardinality({k \in 1..Len(alert_run.notified) :
                    alert_run.notified[k].rule_id = i})

RecordsOf(i) ==
    Cardinality({k \in 1..Len(alert_run.triggered) :
                    alert_run.triggered[k].rule_id = i})

HasQuote(i) == alert_run.scrapes[i].quote # None

\* The unrealized percentages of the rule's ticker in its user's summary.
PctsOf(rule) ==
    LET valued == SummaryFor(alert_run.orders[rule.user_id], rule.ticker,
                             alert_run.scrapes[rule.id].later).positions
    IN  {valued[k].unrealized_profit_pct :
            k \in {j \in 1..Len(valued) : valued[j].ticker = rule.ticker}}
        \ {None}

\* The threshold condition of a rule that has a quote.
ThresholdHolds(rule) ==
    CASE rule.rule_type = "price_above" ->
             RatLe(rule.threshold_value, alert_run.scrapes[rule.id].quote)
      [] rule.rule_type = "price_below" ->
             RatLe(alert_run.scrapes[rule.id].quote, rule.threshold_value)
      [] rule.rule_type = "loss_pct" ->
             \E pct \in PctsOf(rule) :
                 RatLe(RatAdd(pct, rule.threshold_value), Zero)
      [] rule.rule_type = "gain_pct" ->
             \E pct \in PctsOf(rule) : RatLe(rule.threshold_value, pct)

Due(rule) == rule.is_active /\ HasQuote(rule.id) /\ ThresholdHolds(rule)

\* The rule of id i notifies only if it is due.
NotifiesOnlyIfDue(i) ==
    NotificationsOf(i) > 0 => Due(alert_run.rules[i])

\* A due rule sends one notification, to its own user, is recorded once and
\* is stamped.
DueNotifiesOnce(i) ==
    Due(alert_run.rules[i]) =>
        /\ NotificationsOf(i) = 1
        /\ \A k \in 1..Len(alert_run.notified) :
               alert_run.notified[k].rule_id = i =>
                   alert_run.notified[k].user_id
                       = alert_run.rules[i].user_id
        /\ RecordsOf(i) = 1
        /\ alert_rules[i].last_triggered_at = alert_run.now
        /\ alert_rules[i].last_triggered_at
               > alert_run.rules[i].last_triggered_at

\* A rule that is not due is neither recorded nor stamped.
OthersUntouched(i) ==
    ~Due(alert_run.rules[i]) =>
        /\ RecordsOf(i) = 0
        /\ alert_rules[i] = alert_run.rules[i]

\* C30 (one run of the alert check): a rule notifies only if it is active,
\* has a quote and its threshold condition holds; then it sends exactly one
\* notification, to its own user, is recorded once in the returned list and
\* has last_triggered_at updated; a rule without a quote sends none, and the
\* rules after it are evaluated all the same.
C30_AlertRun ==
    op = "check_price_alerts" =>
        \A i \in 1..Len(alert_run.rules) :
            /\ NotifiesOnlyIfDue(i)
            /\ DueNotifiesOnce(i)
            /\ OthersUntouched(i)

\* A run in which the first rule has no quote and the second, a loss rule of
\* the user who holds the position, notifies.
C30_Witness ==
    /\ op = "check_price_alerts"
    /\ Len(alert_run.rules) = 2
    /\ ~HasQuote(1)
    /\ alert_run.rules[2].rule_type = "loss_pct"
    /\ NotificationsOf(2) = 1

=============================================================================
